---- MODULE Spec2Model ----
(***************************************************************************)
(* Model of scripts/update_tickers.py: one run of main() - the scrip       *)
(* master download with retries, the CSV parse, the three category passes  *)
(* of process_data and the consolidated "all" output.                      *)
(*                                                                         *)
(* A Python str is a sequence of one-character strings ("RELI" is          *)
(* <<"R","E","L","I">>); a csv text is the sequence of its lines, each     *)
(* line the sequence of its fields, the first line being the header.       *)
(***************************************************************************)
EXTENDS Integers, Sequences, FiniteSets, TLC

VARIABLES
    pc,                 \* position of main(): start, get, sleep, check, parse, category, all, except, exited
    attempt,            \* loop variable of download_csv
    gets,               \* number of session.get calls made so far
    slept,              \* sequence of the durations passed to time.sleep
    errs,               \* the exception raised by each failed attempt, in order
    csv_text,           \* value returned by download_csv (NoText before it returns)
    rows,               \* list(reader) of process_data ([] before the parse)
    idx,                \* index into CONFIG of the category processed next (0 before the parse)
    all_india_tickers,  \* accumulator of process_data, then the sorted list of main
    fs,                 \* content of every output file
    fs0,                \* content of every output file when the run started
    writes,             \* the paths opened for writing by this run, in order
    error,              \* the exception that ended the run (NoError if none)
    failed_cat,         \* index of the category whose processing raised (0 if none)
    logged,             \* the logger.error messages, in order
    exit_code,          \* process exit status (Running while main() runs)
    raw,                \* argument of a stand-alone clean_ticker call
    cleaned             \* its result (NotCleaned before the call)

vars == <<pc, attempt, gets, slept, errs, csv_text, rows, idx, all_india_tickers,
          fs, fs0, writes, error, failed_cat, logged, exit_code, raw, cleaned>>

(***************************************************************************)
(* Bounds of the model.                                                    *)
(***************************************************************************)
MaxRows == 2    \* data lines of a downloaded text
MaxLen == 4     \* length of the raw values given to clean_ticker on its own

(***************************************************************************)
(* Program constants.                                                      *)
(***************************************************************************)
MAX_RETRIES == 3
DELAY == 2

(***************************************************************************)
(* Python values.                                                          *)
(***************************************************************************)
\* None, the value csv.DictReader gives a key whose field the line lacks;
\* distinct from every str: its element is no character
None == <<"NoneType">>
NoError == "NoError"
Running == -1

\* the characters of the model, in code point order
Alphabet == <<"\t", " ", "\"", "'", ".", "2", "5", "9", "A", "B", "E", "F",
              "N", "O", "S", "T", "e", "f", "n", "o", "t">>

\* The characters str.strip() removes, c.isspace(), as far as a TLA+ string can hold
\* them: U+0009..U+000D, U+001C..U+001F, U+0020, U+0085, U+00A0 and U+1680 (the
\* ones without an escape are written raw, in this order).  U+2000..U+200A, U+2028,
\* U+2029, U+202F, U+205F and U+3000 are whitespace too and cannot be written.
Whitespace == {"\t", "\n", "", "\f", "\r", "", "", "", "", " ", "", " ", " "}

Range(s) == {s[k] : k \in 1..Len(s)}

Ord(c) == CHOOSE k \in 1..Len(Alphabet) : Alphabet[k] = c

\* a < b for two str, as Python compares them: by code point, a proper prefix first
RECURSIVE StrLt(_, _)
StrLt(a, b) ==
    IF b = <<>> THEN FALSE
    ELSE IF a = <<>> THEN TRUE
    ELSE IF Head(a) # Head(b) THEN Ord(Head(a)) < Ord(Head(b))
    ELSE StrLt(Tail(a), Tail(b))

\* str(x)
Str(x) == IF x = None THEN <<"N", "o", "n", "e">> ELSE x

\* c.upper() for one character
UpperChar(c) ==
    CASE c = "e" -> "E"
      [] c = "f" -> "F"
      [] c = "n" -> "N"
      [] c = "o" -> "O"
      [] c = "t" -> "T"
      [] OTHER -> c

\* s.upper()
Upper(s) == [k \in 1..Len(s) |-> UpperChar(s[k])]

\* s.startswith(p)
StartsWith(s, p) == Len(s) >= Len(p) /\ SubSeq(s, 1, Len(p)) = p

\* p in s, for two str
Contains(s, p) ==
    \E k \in 1..(Len(s) - Len(p) + 1) : SubSeq(s, k, k + Len(p) - 1) = p

\* s.lstrip(), s.rstrip(), s.strip()
RECURSIVE LStrip(_)
LStrip(s) == IF s # <<>> /\ Head(s) \in Whitespace THEN LStrip(Tail(s)) ELSE s

RECURSIVE RStrip(_)
RStrip(s) ==
    IF s # <<>> /\ s[Len(s)] \in Whitespace THEN RStrip(SubSeq(s, 1, Len(s) - 1)) ELSE s

Strip(s) == RStrip(LStrip(s))

\* s.replace(c, '') for one character c
RECURSIVE Remove(_, _)
Remove(s, c) ==
    IF s = <<>> THEN <<>>
    ELSE IF Head(s) = c THEN Remove(Tail(s), c)
    ELSE <<Head(s)>> \o Remove(Tail(s), c)

\* clean_ticker(ticker)
clean_ticker(ticker) == Remove(Remove(Strip(Str(ticker)), "\""), "'")

(***************************************************************************)
(* clean_ticker on its own, over every raw value of at most MaxLen         *)
(* characters drawn from two whitespaces (space, U+000B), both quotes and   *)
(* a letter.                                                               *)
(***************************************************************************)
NotCleaned == <<"NotCleaned">>

RawChars == {" ", "", "\"", "'", "A"}

RawValues == UNION {[1..n -> RawChars] : n \in 0..MaxLen}

Idle ==
    /\ pc = "idle" /\ attempt = 0 /\ gets = 0 /\ slept = <<>> /\ errs = <<>>
    /\ csv_text = << << <<"NoText">> >> >> /\ rows = <<>> /\ idx = 0 /\ all_india_tickers = <<>>
    /\ fs = <<>> /\ fs0 = <<>> /\ writes = <<>> /\ error = NoError
    /\ failed_cat = 0 /\ logged = <<>> /\ exit_code = Running

InitClean ==
    /\ Idle
    /\ raw \in RawValues
    /\ cleaned = NotCleaned

CallCleanTicker ==
    /\ pc = "idle"
    /\ cleaned = NotCleaned
    /\ cleaned' = clean_ticker(raw)
    /\ UNCHANGED <<pc, attempt, gets, slept, errs, csv_text, rows, idx, all_india_tickers,
                   fs, fs0, writes, error, failed_cat, logged, exit_code, raw>>

NextClean == CallCleanTicker

SpecClean == InitClean /\ [][NextClean]_vars

IsQuote(c) == c \in {"\"", "'"}

\* C8: for every raw value, the result of clean_ticker holds no quote character
\* and neither starts nor ends with whitespace.
C8_CleanHasNoQuoteNoOuterWhitespace ==
    cleaned # NotCleaned =>
        /\ \A k \in 1..Len(cleaned) : ~IsQuote(cleaned[k])
        /\ cleaned # <<>> => (cleaned[1] \notin Whitespace /\ cleaned[Len(cleaned)] \notin Whitespace)

(***************************************************************************)
(* CONFIG and its filter lambdas.  A row is a function from the column     *)
(* names of the header to the values of the line.  A lambda yields "True"  *)
(* or "False", or the exception its evaluation raises: `and` evaluates     *)
(* left to right and stops at the first false operand, row[c] raises       *)
(* KeyError when c is no key of the row, row.get(c, d) yields d then.      *)
(***************************************************************************)
\* the column names the lambdas of CONFIG read, each a str
Exch == <<"E", "x", "c", "h">>
ExchType == <<"E", "x", "c", "h", "T", "y", "p", "e">>
AllowedToTrade == <<"A", "l", "l", "o", "w", "e", "d", "T", "o", "T", "r", "a", "d", "e">>
Series == <<"S", "e", "r", "i", "e", "s">>
Name == <<"N", "a", "m", "e">>
Scripcode == <<"S", "c", "r", "i", "p", "c", "o", "d", "e">>

Has(row, c) == c \in DOMAIN row

SeriesList == {<<"E", "Q">>, <<"B", "E">>, <<"B", "Z">>, <<"S", "M">>, <<"S", "T">>}

nse_equity_filter_lenient(row) ==
    IF ~Has(row, Exch) THEN "KeyError"
    ELSE IF row[Exch] # <<"N">> THEN "False"
    ELSE IF ~Has(row, ExchType) THEN "KeyError"
    ELSE IF row[ExchType] # <<"C">> THEN "False"
    ELSE IF ~Has(row, AllowedToTrade) THEN "KeyError"
    ELSE IF row[AllowedToTrade] # <<"Y">> THEN "False"
    ELSE IF Has(row, Series) /\ row[Series] \in SeriesList THEN "True" ELSE "False"

nse_equity_filter(row) ==
    IF ~Has(row, Exch) THEN "KeyError"
    ELSE IF row[Exch] # <<"N">> THEN "False"
    ELSE IF ~Has(row, ExchType) THEN "KeyError"
    ELSE IF row[ExchType] # <<"C">> THEN "False"
    ELSE IF ~Has(row, AllowedToTrade) THEN "KeyError"
    ELSE IF row[AllowedToTrade] # <<"Y">> THEN "False"
    ELSE IF ~Has(row, Series) THEN "KeyError"
    ELSE IF row[Series] \in SeriesList THEN "True" ELSE "False"

nse_etf_filter(row) ==
    IF ~Has(row, Exch) THEN "KeyError"
    ELSE IF row[Exch] # <<"N">> THEN "False"
    ELSE IF ~Has(row, ExchType) THEN "KeyError"
    ELSE IF row[ExchType] # <<"C">> THEN "False"
    ELSE IF ~Contains(Upper(Str(IF Has(row, Name) THEN row[Name] ELSE <<>>)),
                      <<"E", "T", "F">>) THEN "False"
    ELSE IF ~Has(row, AllowedToTrade) THEN "KeyError"
    ELSE IF row[AllowedToTrade] = <<"Y">> THEN "True" ELSE "False"

bse_equity_filter(row) ==
    IF ~Has(row, Exch) THEN "KeyError"
    ELSE IF row[Exch] # <<"B">> THEN "False"
    ELSE IF ~Has(row, ExchType) THEN "KeyError"
    ELSE IF row[ExchType] # <<"C">> THEN "False"
    ELSE IF ~Has(row, AllowedToTrade) THEN "KeyError"
    ELSE IF row[AllowedToTrade] # <<"Y">> THEN "False"
    ELSE IF ~Has(row, Scripcode) THEN "KeyError"
    ELSE IF row[Scripcode] = None THEN "AttributeError"
    ELSE IF StartsWith(row[Scripcode], <<"5">>) \/ StartsWith(row[Scripcode], <<"2">>)
         THEN "True" ELSE "False"

CONFIG_etf_in_all == <<
    [key |-> "nse_equity", dir |-> "nse/equity", suffix |-> <<".", "N", "S">>,
     ticker_col |-> Name, include_in_all |-> TRUE],
    [key |-> "nse_etf", dir |-> "nse/etf", suffix |-> <<".", "N", "S">>,
     ticker_col |-> Name, include_in_all |-> TRUE],
    [key |-> "bse_equity", dir |-> "bse/equity", suffix |-> <<".", "B", "O">>,
     ticker_col |-> Scripcode, include_in_all |-> TRUE] >>

CONFIG_bse_not_in_all == <<
    [key |-> "nse_equity", dir |-> "nse/equity", suffix |-> <<".", "N", "S">>,
     ticker_col |-> Name, include_in_all |-> TRUE],
    [key |-> "nse_etf", dir |-> "nse/etf", suffix |-> <<".", "N", "S">>,
     ticker_col |-> Name, include_in_all |-> FALSE],
    [key |-> "bse_equity", dir |-> "bse/equity", suffix |-> <<".", "B", "O">>,
     ticker_col |-> Scripcode, include_in_all |-> FALSE] >>

CONFIG_bse_first == <<
    [key |-> "bse_equity", dir |-> "bse/equity", suffix |-> <<".", "B", "O">>,
     ticker_col |-> Scripcode, include_in_all |-> TRUE],
    [key |-> "nse_equity", dir |-> "nse/equity", suffix |-> <<".", "N", "S">>,
     ticker_col |-> Name, include_in_all |-> TRUE],
    [key |-> "nse_etf", dir |-> "nse/etf", suffix |-> <<".", "N", "S">>,
     ticker_col |-> Name, include_in_all |-> FALSE] >>

CONFIG == <<
    [key |-> "nse_equity", dir |-> "nse/equity", suffix |-> <<".", "N", "S">>,
     ticker_col |-> Name, include_in_all |-> TRUE],
    [key |-> "nse_etf", dir |-> "nse/etf", suffix |-> <<".", "N", "S">>,
     ticker_col |-> Name, include_in_all |-> FALSE],
    [key |-> "bse_equity", dir |-> "bse/equity", suffix |-> <<".", "B", "O">>,
     ticker_col |-> Scripcode, include_in_all |-> TRUE] >>

\* config['filter'](row)
Filter(config, row) ==
    CASE config.key = "nse_equity" -> nse_equity_filter(row)
      [] config.key = "nse_etf" -> nse_etf_filter(row)
      [] config.key = "bse_equity" -> bse_equity_filter(row)

(***************************************************************************)
(* csv.DictReader.  The first line of the text gives fieldnames, blank or  *)
(* not; every later line that has a field gives one row, a line without    *)
(* fields is skipped.  The row is dict(zip(fieldnames, line)), so of two   *)
(* columns of one name the last one counts; the fields beyond the header   *)
(* go as a list under the key None (restkey), the keys beyond the line get *)
(* the value None (restval).                                               *)
(***************************************************************************)
\* `while row == []: row = next(self.reader)`
RECURSIVE SkipBlank(_)
SkipBlank(lines) ==
    IF lines = <<>> THEN <<>>
    ELSE IF Head(lines) = <<>> THEN SkipBlank(Tail(lines))
    ELSE <<Head(lines)>> \o SkipBlank(Tail(lines))

DictRow(fieldnames, line) ==
    LET lf == Len(fieldnames)
        lr == Len(line)
        last(c) == CHOOSE k \in 1..lf :
                      fieldnames[k] = c /\ \A m \in (k + 1)..lf : fieldnames[m] # c
    IN  [c \in Range(fieldnames) \cup (IF lf < lr THEN {None} ELSE {}) |->
            IF c \notin Range(fieldnames) THEN SubSeq(line, lf + 1, lr)
            ELSE IF last(c) <= lr THEN line[last(c)] ELSE None]

\* list(csv.DictReader(StringIO(csv_text)))
DictReader(text) ==
    IF text = <<>> THEN <<>>
    ELSE LET fieldnames == Head(text)
             lines == SkipBlank(Tail(text))
         IN  [k \in 1..Len(lines) |-> DictRow(fieldnames, lines[k])]

(***************************************************************************)
(* process_data, one pass of its loop over CONFIG.                         *)
(***************************************************************************)
\* [row for row in rows if config['filter'](row)]: the first row whose filter raises ends it
RECURSIVE filtered_rows(_, _)
filtered_rows(config, rws) ==
    IF rws = <<>> THEN [err |-> NoError, rows |-> <<>>]
    ELSE LET r == Filter(config, Head(rws))
         IN  IF r \notin {"True", "False"} THEN [err |-> r, rows |-> <<>>]
             ELSE LET rest == filtered_rows(config, Tail(rws))
                  IN  IF rest.err # NoError THEN rest
                      ELSE [err |-> NoError,
                            rows |-> IF r = "True" THEN <<Head(rws)>> \o rest.rows
                                     ELSE rest.rows]

\* the loop that fills `tickers` from filtered_rows
RECURSIVE extract_tickers_uncleaned(_, _)
extract_tickers_uncleaned(config, frows) ==
    IF frows = <<>> THEN [err |-> NoError, tickers |-> <<>>]
    ELSE IF ~Has(Head(frows), config.ticker_col) THEN [err |-> "KeyError", tickers |-> <<>>]
    ELSE LET ticker == Str(Head(frows)[config.ticker_col])
             rest == extract_tickers_uncleaned(config, Tail(frows))
         IN  IF rest.err # NoError THEN rest
             ELSE [err |-> NoError,
                   tickers |-> IF ticker # <<>> THEN <<ticker \o config.suffix>> \o rest.tickers
                               ELSE rest.tickers]

RECURSIVE extract_tickers(_, _)
extract_tickers(config, frows) ==
    IF frows = <<>> THEN [err |-> NoError, tickers |-> <<>>]
    ELSE IF ~Has(Head(frows), config.ticker_col) THEN [err |-> "KeyError", tickers |-> <<>>]
    ELSE LET ticker == clean_ticker(Head(frows)[config.ticker_col])
             rest == extract_tickers(config, Tail(frows))
         IN  IF rest.err # NoError THEN rest
             ELSE [err |-> NoError,
                   tickers |-> IF ticker # <<>> THEN <<ticker \o config.suffix>> \o rest.tickers
                               ELSE rest.tickers]

\* sorted(S) for a set S of str
RECURSIVE SortSet(_)
SortSet(S) ==
    IF S = {} THEN <<>>
    ELSE LET m == CHOOSE x \in S : \A y \in S \ {x} : StrLt(x, y)
         IN  <<m>> \o SortSet(S \ {m})

sorted_set_unsorted(tickers) == tickers

\* sorted(list(set(tickers)))
sorted_set(tickers) == SortSet(Range(tickers))

\* "\n".join(tickers) followed by "\n"
RECURSIVE Join(_)
Join(tickers) ==
    IF tickers = <<>> THEN <<>>
    ELSE IF Len(tickers) = 1 THEN Head(tickers)
    ELSE Head(tickers) \o <<"\n">> \o Join(Tail(tickers))

TxtFile(tickers) == [kind |-> "text", value |-> Join(tickers) \o <<"\n">>]

\* json.dump(value, f)
JsonFile(value) == [kind |-> "json", value |-> value]

Absent == [kind |-> "absent"]
Old == [kind |-> "old"]

\* the three files of a category, in the order process_data opens them
CategoryFiles(config) ==
    << <<config.dir, "full_tickers.json">>, <<config.dir, "tickers.txt">>,
       <<config.dir, "tickers.json">> >>

\* the two files main writes under data/all
AllFiles == << <<"all", "tickers.txt">>, <<"all", "tickers.json">> >>

Paths == UNION {Range(CategoryFiles(CONFIG[k])) : k \in 1..Len(CONFIG)} \cup Range(AllFiles)

\* One pass of the loop for `config`.  fault = n > 0 makes the n-th open(..., 'w')
\* of the pass raise OSError, leaving that file as it was.
process_category(config, rws, files, fault) ==
    LET paths == CategoryFiles(config)
        f == filtered_rows(config, rws)
        fs1 == [files EXCEPT ![paths[1]] = JsonFile(f.rows)]
        e == extract_tickers(config, f.rows)
        tickers == sorted_set(e.tickers)
        fs2 == [fs1 EXCEPT ![paths[2]] = TxtFile(tickers)]
        fs3 == [fs2 EXCEPT ![paths[3]] = JsonFile(tickers)]
    IN  IF f.err # NoError THEN
            [err |-> f.err, fs |-> files, writes |-> <<>>, tickers |-> <<>>]
        ELSE IF fault = 1 THEN
            [err |-> "OSError", fs |-> files, writes |-> <<>>, tickers |-> <<>>]
        ELSE IF e.err # NoError THEN
            [err |-> e.err, fs |-> fs1, writes |-> SubSeq(paths, 1, 1), tickers |-> <<>>]
        ELSE IF fault = 2 THEN
            [err |-> "OSError", fs |-> fs1, writes |-> SubSeq(paths, 1, 1), tickers |-> <<>>]
        ELSE IF fault = 3 THEN
            [err |-> "OSError", fs |-> fs2, writes |-> SubSeq(paths, 1, 2), tickers |-> <<>>]
        ELSE
            [err |-> NoError, fs |-> fs3, writes |-> paths, tickers |-> tickers]

(***************************************************************************)
(* The texts the server may answer with: the empty text, or a header and   *)
(* at most MaxRows lines.  With the lines of LinePool, of full width or    *)
(* shorter, the header is the full one or lacks one column (and then every *)
(* line lacks that field).  With the lines of OddLines, one of them longer *)
(* than the header and one without fields, the header is the full one, or  *)
(* blank, or names a column twice.                                         *)
(***************************************************************************)
\* csv_text before download_csv returns, and None as the value it returns when its
\* loop runs out; both are texts of one line whose field is no str, unlike every text of Texts
NoText == << << <<"NoText">> >> >>
NoneText == << << <<"None">> >> >>

Header == <<Exch, ExchType, AllowedToTrade, Series, Name, Scripcode>>

LinePool == {
    << <<"N">>, <<"C">>, <<"Y">>, <<"E", "Q">>, <<"B">>, <<"9">> >>,
    << <<"N">>, <<"C">>, <<"Y">>, <<"B", "E">>, <<" ", "'", "A", "'">>, <<"9">> >>,
    << <<"N">>, <<"C">>, <<"Y">>, <<"X", "X">>, <<"e", "T", "F">>, <<"9">> >>,
    << <<"N">>, <<"C">>, <<"Y">>, <<"E", "Q">>, <<"e", "T", "F">>, <<"9">> >>,
    << <<"B">>, <<"C">>, <<"Y">>, <<"E", "Q">>, <<"B">>, <<"5">> >>,
    << <<"B">>, <<"C">>, <<"Y">>, <<"E", "Q">>, <<"A">>, <<"2">> >>,
    << <<"N">>, <<"C">>, <<"N">>, <<"E", "Q">>, <<"A">>, <<"5">> >>,
    << <<"B">>, <<"D">>, <<"Y">>, <<"E", "Q">>, <<"A">>, <<"5">> >>,
    << <<"N">>, <<"C">>, <<"Y">>, <<"E", "Q">>, <<"\"">>, <<"9">> >>,
    << <<"B">>, <<"C">>, <<"Y">>, <<"E", "Q">>, <<"A">> >>,
    << <<"N">>, <<"C">>, <<"Y">>, <<"E", "Q">> >> }

\* lines for the odd headers: two of full width, a shorter one, a longer one and
\* one without fields
OddLines == {
    << <<"N">>, <<"C">>, <<"Y">>, <<"E", "Q">>, <<"B">>, <<"9">> >>,
    << <<"B">>, <<"C">>, <<"Y">>, <<"E", "Q">>, <<"A">>, <<"5">> >>,
    << <<"N">>, <<"C">>, <<"Y">>, <<"E", "Q">>, <<"A">> >>,
    << <<"B">>, <<"C">>, <<"Y">>, <<"E", "Q">>, <<"B">>, <<"2">>, <<"A">> >>,
    << >> }

DropField(line, k) ==
    IF k = 0 \/ k > Len(line) THEN line
    ELSE SubSeq(line, 1, k - 1) \o SubSeq(line, k + 1, Len(line))

LineSeqs == UNION {[1..n -> LinePool] : n \in 0..MaxRows}

OddLineSeqs == UNION {[1..n -> OddLines] : n \in 0..MaxRows}

\* the full header, a header without a field (a blank first line), and one with
\* the name Name twice
OddHeaders == {Header, <<>>, <<Exch, ExchType, AllowedToTrade, Series, Name, Name>>}

Texts ==
    {<<>>} \cup
    { <<DropField(Header, k)>> \o [j \in 1..Len(ls) |-> DropField(ls[j], k)] :
        k \in 0..Len(Header), ls \in LineSeqs } \cup
    { <<h>> \o ls : h \in OddHeaders, ls \in OddLineSeqs }

\* the exceptions of requests that session.get and raise_for_status raise
RequestExceptions == {"ConnectionError", "HTTPError"}

(***************************************************************************)
(* main()                                                                  *)
(***************************************************************************)
Init ==
    /\ pc = "start"
    /\ attempt = 0 /\ gets = 0 /\ slept = <<>> /\ errs = <<>>
    /\ csv_text = NoText /\ rows = <<>> /\ idx = 0 /\ all_india_tickers = <<>>
    /\ fs0 \in {[p \in Paths |-> Absent], [p \in Paths |-> Old]}
    /\ fs = fs0
    /\ writes = <<>> /\ error = NoError /\ failed_cat = 0 /\ logged = <<>>
    /\ exit_code = Running
    /\ raw = <<>> /\ cleaned = NotCleaned

\* print("Script starting..."), get_session(), the call of download_csv
Start ==
    /\ pc = "start"
    /\ pc' = "get"
    /\ attempt' = 0
    /\ UNCHANGED <<gets, slept, errs, csv_text, rows, idx, all_india_tickers, fs, fs0,
                   writes, error, failed_cat, logged, exit_code, raw, cleaned>>

\* `if attempt < MAX_RETRIES - 1` of the except clause of download_csv
ShouldSleep_always(a) == a < MAX_RETRIES

ShouldSleep(a) == a < MAX_RETRIES - 1

\* one pass of the loop of download_csv up to its return, its sleep or its raise
Get ==
    /\ pc = "get"
    /\ gets' = gets + 1
    /\ \/ \E body \in Texts :
            /\ csv_text' = body
            /\ pc' = "check"
            /\ UNCHANGED <<errs, error, logged>>
       \/ \E e \in RequestExceptions :
            /\ errs' = Append(errs, e)
            /\ IF ShouldSleep(attempt)
               THEN pc' = "sleep" /\ UNCHANGED <<error, logged>>
               ELSE /\ logged' = Append(logged, "Max retries reached")
                    /\ error' = e
                    /\ pc' = "except"
            /\ UNCHANGED csv_text
    /\ UNCHANGED <<attempt, slept, rows, idx, all_india_tickers, fs, fs0, writes,
                   failed_cat, exit_code, raw, cleaned>>

\* time.sleep(DELAY) and the next turn of `for attempt in range(MAX_RETRIES)`;
\* a loop that runs out returns None
Sleep ==
    /\ pc = "sleep"
    /\ slept' = Append(slept, DELAY)
    /\ attempt' = attempt + 1
    /\ IF attempt + 1 < MAX_RETRIES
       THEN pc' = "get" /\ UNCHANGED csv_text
       ELSE pc' = "check" /\ csv_text' = NoneText
    /\ UNCHANGED <<gets, errs, rows, idx, all_india_tickers, fs, fs0, writes, error,
                   failed_cat, logged, exit_code, raw, cleaned>>

\* `not csv_text`
IsEmpty_never(text) == FALSE

IsEmpty(text) == text = <<>> \/ text = NoneText

\* `if not csv_text: ... exit(1)`: SystemExit is no Exception, the except clause lets it pass
CheckEmpty ==
    /\ pc = "check"
    /\ IF IsEmpty(csv_text)
       THEN /\ logged' = Append(logged, "Downloaded CSV is empty")
            /\ error' = "SystemExit"
            /\ exit_code' = 1
            /\ pc' = "exited"
       ELSE /\ pc' = "parse"
            /\ UNCHANGED <<logged, error, exit_code>>
    /\ UNCHANGED <<attempt, gets, slept, errs, csv_text, rows, idx, all_india_tickers,
                   fs, fs0, writes, failed_cat, raw, cleaned>>

\* process_data up to its loop: the parse, all_india_tickers = [], data_dir.mkdir
Parse ==
    /\ pc = "parse"
    /\ rows' = DictReader(csv_text)
    /\ all_india_tickers' = <<>>
    /\ idx' = 1
    /\ pc' = "category"
    /\ UNCHANGED <<attempt, gets, slept, errs, csv_text, fs, fs0, writes, error,
                   failed_cat, logged, exit_code, raw, cleaned>>

\* where main() goes after the pass for CONFIG[k] ended with err
AfterCategory_continue(k, err) ==
    IF k < Len(CONFIG) THEN "category" ELSE "all"

AfterCategory(k, err) ==
    IF err # NoError THEN "except"
    ELSE IF k < Len(CONFIG) THEN "category" ELSE "all"

\* one pass of `for config in CONFIG`
Category ==
    /\ pc = "category"
    /\ \E fault \in 0..3 :
        LET config == CONFIG[idx]
            r == process_category(config, rows, fs, fault)
        IN  /\ fs' = r.fs
            /\ writes' = writes \o r.writes
            /\ all_india_tickers' =
                  IF r.err = NoError /\ config.include_in_all
                  THEN all_india_tickers \o r.tickers ELSE all_india_tickers
            /\ error' = IF r.err # NoError THEN r.err ELSE error
            /\ failed_cat' = IF r.err # NoError /\ failed_cat = 0 THEN idx ELSE failed_cat
            /\ pc' = AfterCategory(idx, r.err)
            /\ idx' = IF r.err = NoError \/ pc' # "except" THEN idx + 1 ELSE idx
    /\ UNCHANGED <<attempt, gets, slept, errs, csv_text, rows, fs0, logged, exit_code,
                   raw, cleaned>>

\* the rest of the try block of main(): the two files under data/all.
\* fault = n > 0 makes the n-th open(..., 'w') raise OSError.
WriteAll ==
    /\ pc = "all"
    /\ \E fault \in 0..2 :
        LET tickers == sorted_set(all_india_tickers)
            fs1 == [fs EXCEPT ![AllFiles[1]] = TxtFile(tickers)]
            fs2 == [fs1 EXCEPT ![AllFiles[2]] = JsonFile(tickers)]
        IN  /\ all_india_tickers' = tickers
            /\ IF fault = 1 THEN
                   /\ fs' = fs /\ writes' = writes
                   /\ error' = "OSError" /\ pc' = "except" /\ UNCHANGED exit_code
               ELSE IF fault = 2 THEN
                   /\ fs' = fs1 /\ writes' = writes \o SubSeq(AllFiles, 1, 1)
                   /\ error' = "OSError" /\ pc' = "except" /\ UNCHANGED exit_code
               ELSE
                   /\ fs' = fs2 /\ writes' = writes \o AllFiles
                   /\ exit_code' = 0 /\ pc' = "exited" /\ UNCHANGED error
    /\ UNCHANGED <<attempt, gets, slept, errs, csv_text, rows, idx, fs0, failed_cat,
                   logged, raw, cleaned>>

\* except Exception as e: logger.error(...); exit(1)
Except ==
    /\ pc = "except"
    /\ logged' = Append(logged, "Script failed")
    /\ exit_code' = 1
    /\ pc' = "exited"
    /\ UNCHANGED <<attempt, gets, slept, errs, csv_text, rows, idx, all_india_tickers,
                   fs, fs0, writes, error, failed_cat, raw, cleaned>>

Next == Start \/ Get \/ Sleep \/ CheckEmpty \/ Parse \/ Category \/ WriteAll \/ Except

Spec == Init /\ [][Next]_vars

TypeOK ==
    /\ pc \in {"start", "get", "sleep", "check", "parse", "category", "all", "except", "exited"}
    /\ attempt \in 0..MAX_RETRIES
    /\ exit_code \in {Running, 0, 1}
    /\ DOMAIN fs = Paths

(***************************************************************************)
(* Properties.                                                             *)
(***************************************************************************)
Success == pc = "exited" /\ exit_code = 0

TickersJson(dir) == fs[<<dir, "tickers.json">>]
TickersTxt(dir) == fs[<<dir, "tickers.txt">>]

\* C1: download_csv makes at most 3 GET attempts; attempt n+1 is made only after
\* attempt n failed and after one sleep of 2; the first successful attempt returns
\* the body with no further attempt or sleep; when all 3 attempts fail it raises
\* the error of the third attempt and no sleep follows that attempt.
C1_RetryDiscipline ==
    /\ gets <= 3
    /\ \A k \in 1..Len(slept) : slept[k] = 2
    /\ pc = "get" => (Len(errs) = gets /\ Len(slept) = gets)
    /\ pc = "sleep" => (Len(errs) = gets /\ Len(slept) = gets - 1)
    /\ csv_text # NoText =>
          /\ csv_text # NoneText
          /\ gets = Len(errs) + 1
          /\ Len(slept) = Len(errs)
    /\ (csv_text = NoText /\ pc \in {"except", "exited"}) =>
          /\ gets = 3 /\ Len(errs) = 3 /\ Len(slept) = 2
          /\ error = errs[3]

C1_Witness ==
    /\ pc = "exited" /\ csv_text = NoText
    /\ Len(errs) = 3 /\ errs[2] # errs[3] /\ error = errs[3]

\* C2: when the fetch returns the empty text the run reports an error and exits
\* with a non-zero status, and no output file is created or modified.
C2_EmptyTextFailsWithoutOutput ==
    csv_text = <<>> =>
        /\ fs = fs0
        /\ writes = <<>>
        /\ pc \notin {"parse", "category", "all"}
        /\ pc = "exited" =>
              /\ exit_code = 1
              /\ \E k \in 1..Len(logged) : logged[k] = "Downloaded CSV is empty"

C2_Witness ==
    /\ pc = "exited" /\ csv_text = <<>> /\ exit_code = 1
    /\ \A p \in Paths : fs[p] = Old

\* the columns the predicate of a rule is said to expect
Expected(key) ==
    CASE key = "nse_equity" -> {Exch, ExchType, AllowedToTrade, Series}
      [] key = "nse_etf" -> {Exch, ExchType, Name, AllowedToTrade}
      [] key = "bse_equity" -> {Exch, ExchType, AllowedToTrade, Scripcode}

ExchOf(key) == IF key = "bse_equity" THEN <<"B">> ELSE <<"N">>

Parsed == idx > 0

\* C3 as stated: for every rule and every record that lacks a column the rule's
\* predicate expects, the predicate raises a lookup error and the run exits with 1.
C3_MissingColumnAlwaysRaises ==
    Parsed =>
        \A k \in 1..Len(CONFIG), j \in 1..Len(rows) :
            ~(Expected(CONFIG[k].key) \subseteq DOMAIN rows[j]) =>
                /\ Filter(CONFIG[k], rows[j]) = "KeyError"
                /\ pc = "exited" => exit_code = 1

\* the operands of the `and` chain of a rule's lambda, by the column each reads,
\* from left to right
Operands(key) ==
    CASE key = "nse_equity" -> <<Exch, ExchType, AllowedToTrade, Series>>
      [] key = "nse_etf" -> <<Exch, ExchType, Name, AllowedToTrade>>
      [] key = "bse_equity" -> <<Exch, ExchType, AllowedToTrade, Scripcode>>

\* every column is read with row[...], but Name under nse_etf, read with a default
ReadWithDefault(key, c) == key = "nse_etf" /\ c = Name

\* the column is there, or defaulted, and the operand that reads it is true
OperandTrue(key, c, row) ==
    LET v == IF c \in DOMAIN row THEN row[c] ELSE <<>>
    IN  /\ c \in DOMAIN row \/ ReadWithDefault(key, c)
        /\ CASE c = Exch -> v = ExchOf(key)
             [] c = ExchType -> v = <<"C">>
             [] c = AllowedToTrade -> v = <<"Y">>
             [] c = Series -> v \in SeriesList
             [] c = Name -> \E k \in 1..(Len(Str(v)) - 2) :
                                /\ Str(v)[k] \in {"E", "e"}
                                /\ Str(v)[k + 1] \in {"T", "t"}
                                /\ Str(v)[k + 2] \in {"F", "f"}
             [] c = Scripcode -> v # None /\ v # <<>> /\ v[1] \in {"5", "2"}

\* the evaluation gets to the n-th operand, a column read with row[...], and the
\* record lacks that column
ReachesMissing(key, n, row) ==
    /\ Operands(key)[n] \notin DOMAIN row
    /\ ~ReadWithDefault(key, Operands(key)[n])
    /\ \A m \in 1..(n - 1) : OperandTrue(key, Operands(key)[m], row)

\* C3 amended: for every rule and every record, the predicate raises a lookup error
\* exactly when its left-to-right evaluation reaches a column the record lacks, that
\* is when every operand left of that column is true; Name under nse_etf is read
\* with a default and reaching it never raises.  The record is then never treated as
\* not matching and the run exits with status 1.  A record that lacks an expected
\* column the evaluation does not reach is not matching, without error.
C3_LookupErrorWhenReached ==
    Parsed =>
        \A k \in 1..Len(CONFIG), j \in 1..Len(rows) :
            LET key == CONFIG[k].key
                row == rows[j]
                res == Filter(CONFIG[k], row)
            IN  /\ res = "KeyError" <=>
                      \E n \in 1..Len(Operands(key)) : ReachesMissing(key, n, row)
                /\ (~(Expected(key) \subseteq DOMAIN row) /\ res # "KeyError") => res = "False"
                /\ res \in {"KeyError", "AttributeError"} =>
                      /\ pc # "all"
                      /\ pc = "exited" => exit_code = 1

C3_Witness ==
    /\ pc = "exited" /\ exit_code = 1 /\ error = "KeyError" /\ failed_cat = 1
    /\ \E j \in 1..Len(rows) : Series \notin DOMAIN rows[j]

\* s < t for every two neighbours of the list
StrictlySorted(list) == \A k \in 1..(Len(list) - 1) : StrLt(list[k], list[k + 1])

TickerDirs == {"nse/equity", "nse/etf", "bse/equity", "all"}

\* C4: when the run succeeds, every emitted ticker list (each category's and the
\* consolidated one, as tickers.json and as tickers.txt) is sorted ascending by
\* string order and has no duplicate entry.
C4_ListsSortedUnique ==
    Success =>
        \A dir \in TickerDirs :
            /\ TickersJson(dir).kind = "json"
            /\ StrictlySorted(TickersJson(dir).value)
            /\ TickersTxt(dir) = TxtFile(TickersJson(dir).value)

C4_Witness ==
    /\ Success
    /\ Len(rows) = 2
    /\ Len(TickersJson("nse/equity").value) = 2
    /\ StrLt(clean_ticker(rows[2][Name]), clean_ticker(rows[1][Name]))

\* C5: every entry of a category's ticker list is clean(record[tickerColumn]) + suffix
\* of a record that satisfied the category's predicate.
C5_EntriesFromMatchingRecords ==
    \A k \in 1..Len(CONFIG) :
        LET config == CONFIG[k]
            path == <<config.dir, "tickers.json">>
        IN  (\E n \in 1..Len(writes) : writes[n] = path) =>
                \A m \in 1..Len(fs[path].value) :
                    \E j \in 1..Len(rows) :
                        /\ Filter(config, rows[j]) = "True"
                        /\ fs[path].value[m] =
                              clean_ticker(rows[j][config.ticker_col]) \o config.suffix

C5_Witness ==
    /\ Success
    /\ TickersJson("nse/equity").value # <<>>
    /\ \E j \in 1..Len(rows) :
          /\ nse_equity_filter(rows[j]) = "True"
          /\ clean_ticker(rows[j][Name]) # rows[j][Name]
    /\ \E j \in 1..Len(rows) : nse_equity_filter(rows[j]) = "False"

\* C6: the consolidated ticker set is the union of the ticker sets of nse_equity
\* and bse_equity, the rules with include_in_all = true.
C6_AllIsUnionOfIncluded ==
    Success =>
        Range(TickersJson("all").value) =
            Range(TickersJson("nse/equity").value) \cup Range(TickersJson("bse/equity").value)

C6_Witness ==
    /\ Success
    /\ TickersJson("nse/equity").value # <<>>
    /\ TickersJson("bse/equity").value # <<>>

\* the ticker a row gives under the nse rules
NseTicker(row) == clean_ticker(row[Name]) \o <<".", "N", "S">>

EtfOnly(row) == nse_etf_filter(row) = "True" /\ nse_equity_filter(row) # "True"

\* C7 as stated: a row that matches nse_etf and not nse_equity is in the nse_etf
\* output and not in the consolidated output.
C7_EtfRowNeverInAll ==
    Success =>
        \A j \in 1..Len(rows) :
            EtfOnly(rows[j]) =>
                /\ NseTicker(rows[j]) \in Range(TickersJson("nse/etf").value)
                /\ NseTicker(rows[j]) \notin Range(TickersJson("all").value)

\* C7 amended: a row that matches nse_etf and not nse_equity is in the nse_etf
\* output, and its ticker is in the consolidated output exactly when another row,
\* one that matches nse_equity, gives the same ticker.
C7_EtfRowInAllOnlyThroughEquity ==
    Success =>
        \A j \in 1..Len(rows) :
            EtfOnly(rows[j]) =>
                /\ NseTicker(rows[j]) \in Range(TickersJson("nse/etf").value)
                /\ NseTicker(rows[j]) \in Range(TickersJson("all").value)
                      <=> \E i \in 1..Len(rows) :
                              /\ nse_equity_filter(rows[i]) = "True"
                              /\ NseTicker(rows[i]) = NseTicker(rows[j])

C7_Witness ==
    /\ Success
    /\ TickersJson("all").value # <<>>
    /\ \E j \in 1..Len(rows) :
          /\ EtfOnly(rows[j])
          /\ NseTicker(rows[j]) \notin Range(TickersJson("all").value)

\* the order in which a run opens its output files
FileOrder == <<
    <<"nse/equity", "full_tickers.json">>, <<"nse/equity", "tickers.txt">>,
    <<"nse/equity", "tickers.json">>,
    <<"nse/etf", "full_tickers.json">>, <<"nse/etf", "tickers.txt">>,
    <<"nse/etf", "tickers.json">>,
    <<"bse/equity", "full_tickers.json">>, <<"bse/equity", "tickers.txt">>,
    <<"bse/equity", "tickers.json">>,
    <<"all", "tickers.txt">>, <<"all", "tickers.json">> >>

\* C9: no file is written before the single fetch has returned and the text was
\* parsed; the files are written in the order nse_equity, nse_etf, bse_equity and
\* then data/all; exit status 0 is reported only after all of them were written.
C9_StrictlySequential ==
    /\ Len(writes) <= Len(FileOrder)
    /\ writes = SubSeq(FileOrder, 1, Len(writes))
    /\ writes # <<>> =>
          /\ csv_text # NoText /\ csv_text # NoneText /\ csv_text # <<>>
          /\ Parsed
          /\ pc \in {"category", "all", "except", "exited"}
    /\ pc \in {"start", "get", "sleep", "check", "parse"} => (writes = <<>> /\ fs = fs0)
    /\ exit_code = 0 => (pc = "exited" /\ writes = FileOrder)

C9_Witness ==
    /\ exit_code = 0 /\ writes = FileOrder /\ gets = 2
    /\ \A p \in Paths : fs[p] # fs0[p]

RuleDirs == <<"nse/equity", "nse/etf", "bse/equity">>

FilesOf(dir) == {<<dir, "full_tickers.json">>, <<dir, "tickers.txt">>, <<dir, "tickers.json">>}

Written(p) == \E n \in 1..Len(writes) : writes[n] = p

\* C10: if the processing of the k-th category raises, the run exits with status 1
\* and rolls nothing back: the three files of every category before k were
\* overwritten by this run, the files of every category after k and the two files
\* under data/all are as they were before the run.
C10_FailureLeavesPartialOutput ==
    failed_cat # 0 =>
        /\ pc \in {"except", "exited"}
        /\ pc = "exited" => exit_code = 1
        /\ \A j \in 1..(failed_cat - 1) : \A p \in FilesOf(RuleDirs[j]) :
              Written(p) /\ fs[p].kind \in {"json", "text"}
        /\ \A j \in (failed_cat + 1)..Len(RuleDirs) : \A p \in FilesOf(RuleDirs[j]) :
              ~Written(p) /\ fs[p] = fs0[p]
        /\ \A p \in Range(AllFiles) : ~Written(p) /\ fs[p] = fs0[p]

C10_Witness ==
    /\ pc = "exited" /\ exit_code = 1 /\ failed_cat = 3 /\ error = "KeyError"
    /\ \A p \in FilesOf("nse/equity") \cup FilesOf("nse/etf") : fs[p].kind \in {"json", "text"}
    /\ \A p \in FilesOf("bse/equity") \cup Range(AllFiles) : fs[p] = Old

====
